---- MODULE Spec2Model ----
(***************************************************************************)
(* Stepwise feature selection (src/stepwiseSelection.py).                  *)
(*                                                                         *)
(* The two selectors are modelled round by round.  The statistics library  *)
(* (statsmodels) is outside the repository: a fit is an unknown but        *)
(* deterministic function of the columns it is given.  The model keeps     *)
(* what the program has read of that function so far (pvalues, fitcrit)    *)
(* and draws every value that is read for the first time.                  *)
(*                                                                         *)
(* A p-value is a rank in PVals, a criterion value (AIC, BIC, R2,          *)
(* adjusted R2) a rank as well: the code only compares them.               *)
(***************************************************************************)
EXTENDS Integers, Sequences, FiniteSets, TLC

VARIABLES
    pc,                   \* position of the running call
    op,                   \* the function that was called
    calls,                \* number of calls started with these arguments
    X,                    \* the design matrix object (its column names, in order)
    model_type,           \* argument model_type
    elimination_criteria, \* argument elimination_criteria
    sl,                   \* argument sl
    selected_cols,        \* forward: selected_cols
    other_cols,           \* forward: other_cols
    criteria,             \* local criteria
    iterations_log,       \* local iterations_log (a sequence of text blocks)
    cols,                 \* local cols
    model,                \* local model: the columns of the fit it is bound to
    last_eleminated,      \* backward: last_eleminated
    i,                    \* loop variable of the main loop
    n,                    \* X.shape[1] as evaluated when the main loop is entered
    pvalues,              \* <<columns, j>> -> model.pvalues[j] of the fit on columns
    fitcrit,              \* columns -> the criterion attribute of the fit on columns
    rets,                 \* what the finished calls returned, in call order
    err,                  \* the exception that ended the call, "" if none
    raw,                  \* encoder: the table it was given (columns, in order)
    policy                \* encoder: argument charvar_process

vars == << pc, op, calls, X, model_type, elimination_criteria, sl, selected_cols,
           other_cols, criteria, iterations_log, cols, model, last_eleminated,
           i, n, pvalues, fitcrit, rets, err, raw, policy >>

----------------------------------------------------------------------------
(* Bounds of the model *)

\* candidate (non-intercept) columns of the largest design matrix
MaxCands == 2
\* the forward selector's criterion values are 0..MaxCrit
MaxCrit == 2
\* calls made with the same arguments, one after the other
MaxCalls == 2
\* columns of the largest table given to the encoder
MaxRawCols == 3

\* The selectors only compare p-values with each other and with sl.  Three
\* ranks and two levels give every outcome of those comparisons: with sl = 1
\* two distinct significant p-values and an insignificant one, with sl = 0 a
\* significant one and two distinct insignificant ones.
PVals == {0, 1, 2}
SigLevels == {0, 1}
\* The forward selector lets a candidate in only on a strictly better value:
\* k candidates in a row take k + 1 ranks.
ForwardCritVals == 0 .. MaxCrit
\* The backward selector only asks whether the refit is worse than the fit
\* before it: two ranks give worse, equal and better at every round.
BackwardCritVals == {0, 1}
CandidateNames == << "a", "b", "c", "d" >>
\* the two recognized model types and one that is not
ModelTypes == {"linear", "logistic", "probit"}
\* the four criteria and None
EliminationCriteria == {"aic", "bic", "r2", "adjr2", "None"}
\* the three recognized policies and one that is not
VarcharPolicies == {"drop", "dummy", "dummy_dropfirst", "onehot"}

\* value of a local that is not bound yet
Unbound == 0 - 1

Range(s) == { s[k] : k \in DOMAIN s }

\* the design matrices handed to the raw selectors: intercept first, as the
\* encoder leaves it, then the candidates
DesignMatrices ==
    { << "intercept" >> \o SubSeq(CandidateNames, 1, k) : k \in 0 .. MaxCands }

----------------------------------------------------------------------------
(* The fits *)

\* every way the fit function can continue what was read of it so far
Observe(memo, keys, Vals) ==
    { memo @@ h : h \in [ (keys \ DOMAIN memo) -> Vals ] }

\* the attribute of the fit that elimination_criteria makes the selectors read
CriterionOf(ec, mt) ==
    IF ec = "aic" THEN "aic"
    ELSE IF ec = "bic" THEN "bic"
    ELSE IF ec = "r2" /\ mt = "linear" THEN "rsquared"
    ELSE IF ec = "adjr2" /\ mt = "linear" THEN "rsquared_adj"
    ELSE "none"

----------------------------------------------------------------------------
(* Python call binding *)

\* the parameters of __varcharProcessing__
VarcharProcessingParams == << "X", "charvar_process" >>

\* a keyword argument binds only to a parameter of that name
KeywordBinds(params, keyword) == keyword \in Range(params)

----------------------------------------------------------------------------
(* Categorical Encoder: __varcharProcessing__ *)

\* a raw table is a sequence of columns [name, dtype, levels]; levels are the
\* distinct values of an object column in sorted order
NumCol(name) == [name |-> name, dtype |-> "num", levels |-> << >>]
ObjCol(name, levels) == [name |-> name, dtype |-> "object", levels |-> levels]
\* the columns a caller's table is made of: numeric columns, one of which
\* already has the name the encoder gives its own column, and a character
\* column; the names within one table are distinct
RawColumns ==
    { NumCol("a"), NumCol("b"), NumCol("intercept"), ObjCol("c", << "x", "y" >>) }
RawTables ==
    { t \in UNION { [1 .. k -> RawColumns] : k \in 0 .. MaxRawCols } :
        \A p, q \in DOMAIN t : p # q => t[p].name # t[q].name }

RECURSIVE Flatten(_)
Flatten(ss) == IF ss = << >> THEN << >> ELSE Head(ss) \o Flatten(Tail(ss))

\* pd.get_dummies(X, drop_first): the other columns in order, then one
\* indicator column per level of every object column
get_dummies(rawX, drop_first) ==
    LET keep == SelectSeq(rawX, LAMBDA c : c.dtype # "object")
        objs == SelectSeq(rawX, LAMBDA c : c.dtype = "object")
        Dummies(c) ==
            LET lv == IF drop_first /\ c.levels # << >>
                      THEN Tail(c.levels) ELSE c.levels
            IN  [k \in 1 .. Len(lv) |-> c.name \o "_" \o lv[k]]
    IN  [k \in 1 .. Len(keep) |-> keep[k].name]
        \o Flatten([k \in 1 .. Len(objs) |-> Dummies(objs[k])])

\* X["intercept"] = 1: a new column goes last, an existing one is overwritten
SetIntercept(names) ==
    IF "intercept" \in Range(names) THEN names ELSE Append(names, "intercept")

\* cols[-1:] + cols[:-1]
RotateLast(names) ==
    IF names = << >> THEN << >>
    ELSE << names[Len(names)] >> \o SubSeq(names, 1, Len(names) - 1)

\* the column names of the table __varcharProcessing__ returns
varcharProcessing(rawX, charvar_process) ==
    LET encoded ==
            IF charvar_process = "drop"
            THEN LET keep == SelectSeq(rawX, LAMBDA c : c.dtype # "object")
                 IN  [k \in 1 .. Len(keep) |-> keep[k].name]
            ELSE IF charvar_process = "dummy" THEN get_dummies(rawX, FALSE)
            ELSE IF charvar_process = "dummy_dropfirst" THEN get_dummies(rawX, TRUE)
            ELSE get_dummies(rawX, TRUE)
    IN  RotateLast(SetIntercept(encoded))

----------------------------------------------------------------------------
(* Initial state: nothing has been called *)

Init ==
    /\ pc = "idle"
    /\ op = ""
    /\ calls = 0
    /\ X = << >>
    /\ model_type = ""
    /\ elimination_criteria = ""
    /\ sl = 0
    /\ selected_cols = << >>
    /\ other_cols = << >>
    /\ criteria = Unbound
    /\ iterations_log = << >>
    /\ cols = << >>
    /\ model = << >>
    /\ last_eleminated = ""
    /\ i = 0
    /\ n = 0
    /\ pvalues = << >>
    /\ fitcrit = << >>
    /\ rets = << >>
    /\ err = ""
    /\ raw = << >>
    /\ policy = ""

\* range(n) still has a value for the loop variable
RangeHasNext(k, m) == k < m

\* a removal that is left out
RemoveNothing(s, x) == s

\* list.remove(x): the list without the first x
Remove(s, x) ==
    LET at == CHOOSE k \in DOMAIN s : s[k] = x /\ \A h \in 1 .. k - 1 : s[h] # x
    IN  SubSeq(s, 1, at - 1) \o SubSeq(s, at + 1, Len(s))

\* the blocks of text the selectors add to iterations_log: the summary of the
\* fit on columns cs with its AIC and BIC lines, and the three announcements
Summary(cs) == [kind |-> "Summary", var |-> "", fit |-> cs]
Entered(j) == [kind |-> "Entered", var |-> j, fit |-> << >>]
Eliminated(j) == [kind |-> "Eliminated", var |-> j, fit |-> << >>]
Regained(j) == [kind |-> "Regained", var |-> j, fit |-> << >>]

----------------------------------------------------------------------------
(* Forward Selector: __forwardSelectionRaw__ *)

\* the first value of selected_cols
InitialSelection == << "intercept" >>

\* a log that is not started afresh by a call
StaleLog == iterations_log

\* the first value of iterations_log
EmptyLog == << >>

\* lines 124-151: the locals, the intercept-only fit and its criterion value
ForwardEnter(Xin, mt, ec, s, name) ==
    /\ op' = name
    /\ calls' = calls + 1
    /\ X' = Xin
    /\ model_type' = mt
    /\ elimination_criteria' = ec
    /\ sl' = s
    /\ iterations_log' = EmptyLog
    /\ cols' = Xin
    /\ selected_cols' = InitialSelection
    /\ other_cols' = Remove(Xin, "intercept")
    /\ model' = InitialSelection
    /\ IF CriterionOf(ec, mt) # "none"
       THEN \E fc \in Observe(fitcrit, {InitialSelection}, ForwardCritVals) :
                /\ fitcrit' = fc
                /\ criteria' = fc[InitialSelection]
       ELSE /\ fitcrit' = fitcrit
            /\ criteria' = Unbound
    /\ i' = 0
    /\ n' = Len(Xin)
    /\ pc' = IF RangeHasNext(0, Len(Xin)) THEN "fwd_loop" ELSE "fwd_end"
    /\ err' = ""
    /\ UNCHANGED << last_eleminated, pvalues, rets, raw, policy >>

\* a direct call of __forwardSelectionRaw__ on an encoded design matrix
forwardSelectionRaw ==
    /\ pc = "idle"
    /\ \E Xin \in DesignMatrices, mt \in ModelTypes,
          ec \in EliminationCriteria, s \in SigLevels :
          ForwardEnter(Xin, mt, ec, s, "forwardSelectionRaw")

RECURSIVE InsertByPval(_, _)
InsertByPval(sorted, row) ==
    IF sorted = << >> THEN << row >>
    ELSE IF row.Pval < sorted[Len(sorted)].Pval
         THEN Append(InsertByPval(SubSeq(sorted, 1, Len(sorted) - 1), row),
                     sorted[Len(sorted)])
         ELSE Append(sorted, row)

\* a sort whose result is dropped: the table stays in the order of other_cols
Unsorted(table) == table

\* pvals.sort_values(by = ["Pval"]): on the short tables of the model the sort
\* is an insertion sort, rows of equal Pval keep their order
RECURSIVE sort_values(_)
sort_values(table) ==
    IF table = << >> THEN << >>
    ELSE InsertByPval(sort_values(SubSeq(table, 1, Len(table) - 1)),
                      table[Len(table)])

\* a filter whose result is dropped
AllRows(table, s) == table

\* line 160: pvals[pvals.Pval <= sl]
SignificantRows(table, s) == SelectSeq(table, LAMBDA r : r.Pval <= s)

\* the gate with a comparison that is not strict
ForwardAcceptsEqual(ec, mt, new_criteria, old_criteria) ==
    IF ec = "aic" THEN new_criteria <= old_criteria
    ELSE IF ec = "bic" THEN new_criteria <= old_criteria
    ELSE IF ec = "r2" /\ mt = "linear" THEN new_criteria >= old_criteria
    ELSE IF ec = "adjr2" /\ mt = "linear" THEN new_criteria >= old_criteria
    ELSE TRUE

\* lines 168-211: whether the candidate's fit lets the candidate in
ForwardAccepts(ec, mt, new_criteria, old_criteria) ==
    IF ec = "aic" THEN new_criteria < old_criteria
    ELSE IF ec = "bic" THEN new_criteria < old_criteria
    ELSE IF ec = "r2" /\ mt = "linear" THEN new_criteria > old_criteria
    ELSE IF ec = "adjr2" /\ mt = "linear" THEN new_criteria > old_criteria
    ELSE TRUE

\* lines 154-215: one pass of the main loop
ForwardRound ==
    /\ pc = "fwd_loop"
    /\ \E pv \in Observe(pvalues,
                         { << Append(selected_cols, j), j >> : j \in Range(other_cols) },
                         PVals) :
        LET table == [k \in 1 .. Len(other_cols) |->
                        [Cols |-> other_cols[k],
                         Pval |-> pv[<< Append(selected_cols, other_cols[k]),
                                        other_cols[k] >>]]]
            sorted == sort_values(table)
            kept == SignificantRows(sorted, sl)
            \* the row labelled 0 is the first row of the sorted table
            best == sorted[1].Cols
            entered == Append(selected_cols, best)
        IN  /\ pvalues' = pv
            /\ IF Len(kept) > 0
               THEN /\ model' = entered
                    /\ iterations_log' =
                           iterations_log \o << Entered(best), Summary(entered) >>
                    /\ IF CriterionOf(elimination_criteria, model_type) # "none"
                       THEN \E fc \in Observe(fitcrit, {entered}, ForwardCritVals) :
                              /\ fitcrit' = fc
                              /\ IF ForwardAccepts(elimination_criteria, model_type,
                                                   fc[entered], criteria)
                                 THEN /\ selected_cols' = entered
                                      /\ other_cols' = Remove(other_cols, best)
                                      /\ criteria' = fc[entered]
                                      /\ i' = i + 1
                                      /\ pc' = IF RangeHasNext(i + 1, n)
                                               THEN "fwd_loop" ELSE "fwd_end"
                                 ELSE /\ pc' = "fwd_end"
                                      /\ UNCHANGED << selected_cols, other_cols,
                                                      criteria, i >>
                       ELSE /\ selected_cols' = entered
                            /\ other_cols' = Remove(other_cols, best)
                            /\ i' = i + 1
                            /\ pc' = IF RangeHasNext(i + 1, n)
                                     THEN "fwd_loop" ELSE "fwd_end"
                            /\ UNCHANGED << fitcrit, criteria >>
               ELSE /\ model' = IF other_cols = << >> THEN model
                                ELSE Append(selected_cols, other_cols[Len(other_cols)])
                    /\ pc' = "fwd_end"
                    /\ UNCHANGED << iterations_log, fitcrit, selected_cols,
                                    other_cols, criteria, i >>
    /\ UNCHANGED << op, calls, X, model_type, elimination_criteria, sl, cols,
                    last_eleminated, n, rets, err, raw, policy >>

\* line 232: return selected_cols, iterations_log
ForwardReturn(selected, log) == [cols |-> selected, log |-> log]

\* lines 217-232: the final fit and the return
ForwardEnd ==
    /\ pc = "fwd_end"
    /\ model' = selected_cols
    /\ criteria' = IF CriterionOf(elimination_criteria, model_type) # "none"
                   THEN fitcrit[selected_cols] ELSE criteria
    /\ rets' = Append(rets, ForwardReturn(selected_cols, iterations_log))
    /\ pc' = "done"
    /\ UNCHANGED << op, calls, X, model_type, elimination_criteria, sl,
                    selected_cols, other_cols, iterations_log, cols,
                    last_eleminated, i, n, pvalues, fitcrit, err,
                    raw, policy >>

----------------------------------------------------------------------------
(* Backward Selector: __backwardSelectionRaw__ *)

\* lines 236-250: the locals and the range of the main loop
BackwardEnter(Xin, mt, ec, s, name) ==
    /\ op' = name
    /\ calls' = calls + 1
    /\ X' = Xin
    /\ model_type' = mt
    /\ elimination_criteria' = ec
    /\ sl' = s
    /\ iterations_log' = << >>
    /\ last_eleminated' = ""
    /\ cols' = Xin
    /\ model' = << >>
    /\ criteria' = Unbound
    /\ selected_cols' = << >>
    /\ other_cols' = << >>
    /\ i' = 0
    /\ n' = Len(Xin)
    /\ pc' = IF RangeHasNext(0, Len(Xin)) THEN "bwd_loop" ELSE "bwd_end"
    /\ err' = ""
    /\ UNCHANGED << pvalues, fitcrit, rets, raw, policy >>

\* a direct call of __backwardSelectionRaw__ on an encoded design matrix
backwardSelectionRaw ==
    /\ pc = "idle"
    /\ \E Xin \in DesignMatrices, mt \in ModelTypes,
          ec \in EliminationCriteria, s \in SigLevels :
          BackwardEnter(Xin, mt, ec, s, "backwardSelectionRaw")

\* the regain test with a comparison that is not strict
BackwardRegainsEqual(ec, mt, old_criteria, new_criteria) ==
    IF ec = "aic" THEN old_criteria <= new_criteria
    ELSE IF ec = "bic" THEN old_criteria <= new_criteria
    ELSE IF ec = "adjr2" /\ mt = "linear" THEN old_criteria >= new_criteria
    ELSE IF ec = "r2" /\ mt = "linear" THEN old_criteria >= new_criteria
    ELSE FALSE

\* lines 252-287: whether the refit sends the selector into the regain branch
BackwardRegains(ec, mt, old_criteria, new_criteria) ==
    IF ec = "aic" THEN old_criteria < new_criteria
    ELSE IF ec = "bic" THEN old_criteria < new_criteria
    ELSE IF ec = "adjr2" /\ mt = "linear" THEN old_criteria > new_criteria
    ELSE IF ec = "r2" /\ mt = "linear" THEN old_criteria > new_criteria
    ELSE FALSE

SetMax(S) == CHOOSE m \in S : \A x \in S : x <= m

\* lines 298-304: the columns the elimination loop deletes, in order
EliminatedCols(columns, pvalueOf, maxPval) ==
    SelectSeq(columns, LAMBDA j : pvalueOf[j] = maxPval)

\* lines 250-306: one pass of the main loop
BackwardRound ==
    /\ pc = "bwd_loop"
    /\ IF i # 0 /\ X = << >>
       THEN \* the refit is asked for a matrix without columns
            /\ pc' = "raised"
            /\ err' = "FitError"
            /\ UNCHANGED << X, criteria, iterations_log, cols, model,
                            last_eleminated, i, pvalues, fitcrit >>
       ELSE LET gated == i # 0 /\ CriterionOf(elimination_criteria, model_type) # "none"
            IN
            \E fc \in Observe(fitcrit, IF gated THEN {model, X} ELSE {}, BackwardCritVals) :
              /\ fitcrit' = fc
              /\ criteria' = IF gated THEN fc[model] ELSE criteria
              /\ err' = err
              /\ IF gated /\ BackwardRegains(elimination_criteria, model_type,
                                             fc[model], fc[X])
                 THEN /\ iterations_log' =
                            iterations_log \o << Summary(X), Regained(last_eleminated) >>
                      /\ pc' = "bwd_end"
                      /\ UNCHANGED << X, cols, model, last_eleminated, i, pvalues >>
                 ELSE \E pv \in Observe(pvalues, { << X, j >> : j \in Range(X) }, PVals) :
                        LET pvalueOf == [j \in Range(X) |-> pv[<< X, j >>]]
                            maxPval == SetMax({ pvalueOf[j] : j \in Range(X) })
                            gone == EliminatedCols(X, pvalueOf, maxPval)
                        IN  /\ pvalues' = pv
                            /\ model' = X
                            /\ cols' = X
                            /\ IF maxPval > sl
                               THEN /\ iterations_log' =
                                          iterations_log \o << Summary(X) >>
                                          \o [k \in 1 .. Len(gone) |-> Eliminated(gone[k])]
                                    /\ X' = SelectSeq(X, LAMBDA j : j \notin Range(gone))
                                    /\ last_eleminated' = gone[Len(gone)]
                                    /\ i' = i + 1
                                    /\ pc' = IF RangeHasNext(i + 1, n)
                                             THEN "bwd_loop" ELSE "bwd_end"
                               ELSE /\ iterations_log' =
                                          iterations_log \o << Summary(X) >>
                                    /\ pc' = "bwd_end"
                                    /\ UNCHANGED << X, last_eleminated, i >>
    /\ UNCHANGED << op, calls, model_type, elimination_criteria, sl,
                    selected_cols, other_cols, n, rets, raw, policy >>

\* a return of the columns the working matrix has at the end
BackwardReturnMatrix(columns, matrix, log) == [cols |-> matrix, log |-> log]

\* line 310: return cols, iterations_log
BackwardReturn(columns, matrix, log) == [cols |-> columns, log |-> log]

\* lines 307-310: the final summary and the return
BackwardEnd ==
    /\ pc = "bwd_end"
    /\ IF model = << >>
       THEN \* the loop body never ran: model is not bound at line 307
            /\ pc' = "raised"
            /\ err' = "NameError"
            /\ UNCHANGED << iterations_log, rets >>
       ELSE /\ iterations_log' = Append(iterations_log, Summary(model))
            /\ rets' = Append(rets, BackwardReturn(cols, X,
                                       Append(iterations_log, Summary(model))))
            /\ pc' = "done"
            /\ err' = err
    /\ UNCHANGED << op, calls, X, model_type, elimination_criteria, sl,
                    selected_cols, other_cols, criteria, cols, model,
                    last_eleminated, i, n, pvalues, fitcrit,
                    raw, policy >>

----------------------------------------------------------------------------
(* The public operations *)

\* lines 56 and 96: __varcharProcessing__(X, varchar_process = varchar_process)
EncoderCallKeyword == "varchar_process"

Raise(name, exception) ==
    /\ op' = name
    /\ calls' = calls + 1
    /\ pc' = "raised"
    /\ err' = exception
    /\ UNCHANGED << X, model_type, elimination_criteria, sl, selected_cols,
                    other_cols, criteria, iterations_log, cols, model,
                    last_eleminated, i, n, pvalues, fitcrit, rets,
                    raw, policy >>

\* lines 19-57
forwardSelection ==
    /\ pc = "idle"
    /\ \E rawX \in RawTables, mt \in ModelTypes, ec \in EliminationCriteria,
          varchar_process \in VarcharPolicies, s \in SigLevels :
          IF KeywordBinds(VarcharProcessingParams, EncoderCallKeyword)
          THEN ForwardEnter(varcharProcessing(rawX, varchar_process),
                            mt, ec, s, "forwardSelection")
          ELSE Raise("forwardSelection", "TypeError")

\* lines 59-97
backwardSelection ==
    /\ pc = "idle"
    /\ \E rawX \in RawTables, mt \in ModelTypes, ec \in EliminationCriteria,
          varchar_process \in VarcharPolicies, s \in SigLevels :
          IF KeywordBinds(VarcharProcessingParams, EncoderCallKeyword)
          THEN BackwardEnter(varcharProcessing(rawX, varchar_process),
                             mt, ec, s, "backwardSelection")
          ELSE Raise("backwardSelection", "TypeError")

\* a direct call of __varcharProcessing__ with both arguments by position;
\* X is the table it returns
EncoderCall ==
    /\ pc = "idle"
    /\ \E rawX \in RawTables, process \in VarcharPolicies :
          /\ raw' = rawX
          /\ policy' = process
          /\ X' = varcharProcessing(rawX, process)
    /\ op' = "varcharProcessing"
    /\ calls' = calls + 1
    /\ pc' = "done"
    /\ UNCHANGED << model_type, elimination_criteria, sl, selected_cols,
                    other_cols, criteria, iterations_log, cols, model,
                    last_eleminated, i, n, pvalues, fitcrit, rets, err >>

----------------------------------------------------------------------------
(* The caller repeats a forward call that returned, with the same          *)
(* arguments: the same design matrix object, model_type,                   *)
(* elimination_criteria and sl.                                            *)

ForwardAgain ==
    /\ pc = "done"
    /\ calls < MaxCalls
    /\ op \in {"forwardSelectionRaw", "forwardSelection"}
    /\ ForwardEnter(X, model_type, elimination_criteria, sl, op)

----------------------------------------------------------------------------

\* the forward selector alone
ForwardNext ==
    \/ forwardSelectionRaw
    \/ ForwardRound
    \/ ForwardEnd
    \/ ForwardAgain

ForwardSpec == Init /\ [][ForwardNext]_vars

\* the backward selector alone
BackwardNext ==
    \/ backwardSelectionRaw
    \/ BackwardRound
    \/ BackwardEnd

BackwardSpec == Init /\ [][BackwardNext]_vars

\* one direct call of either selector, run to its end
SelectorNext ==
    \/ forwardSelectionRaw
    \/ ForwardRound
    \/ ForwardEnd
    \/ backwardSelectionRaw
    \/ BackwardRound
    \/ BackwardEnd

SelectorSpec == Init /\ [][SelectorNext]_vars

\* the encoder alone
EncoderNext == EncoderCall

EncoderSpec == Init /\ [][EncoderNext]_vars

\* the whole module
Next ==
    \/ forwardSelection
    \/ backwardSelection
    \/ EncoderCall
    \/ ForwardNext
    \/ BackwardNext

Spec == Init /\ [][Next]_vars

----------------------------------------------------------------------------
(* Properties *)

Last(s) == s[Len(s)]
Candidates(matrix) == { j \in Range(matrix) : j # "intercept" }
IsForward == op \in {"forwardSelectionRaw", "forwardSelection"}
IsBackward == op \in {"backwardSelectionRaw", "backwardSelection"}
\* the p-value candidate j had when it was fitted together with the selection
EntryPval(pv, selection, j) == pv[<< Append(selection, j), j >>]
\* a log that ends in the regain branch: ..., Regained v, final summary
EndsInRegain(log) == Len(log) >= 3 /\ log[Len(log) - 1].kind = "Regained"
RegainedVar(log) == log[Len(log) - 1].var

\* C1: every list a selector returns contains "intercept"; the backward
\* selector never eliminates intercept and the forward selector never has it
\* among its candidates.
C1_InterceptIsPermanent ==
    /\ \A k \in DOMAIN rets : "intercept" \in Range(rets[k].cols)
    /\ last_eleminated # "intercept"
    /\ "intercept" \notin Range(other_cols)

\* C2 as claimed: after the regain branch the returned list is the column set
\* of the reduced, worse-fit model (it lacks the eliminated variable) and the
\* final summary is the one of that model.
C2_RegainReturnsReducedModel ==
    \A k \in DOMAIN rets :
        EndsInRegain(rets[k].log) =>
            /\ RegainedVar(rets[k].log) \notin Range(rets[k].cols)
            /\ rets[k].cols = X
            /\ Last(rets[k].log).fit = X

\* C2 as amended: after the regain branch the returned list is the column
\* set of the fit before the elimination: it contains the eliminated variable
\* and every column still in the working matrix, which has lost the variable;
\* the final summary is the one of that earlier fit, and the summary of the
\* worse refit stands in the log before the regain announcement.
C2_RegainReturnsPriorModel ==
    \A k \in DOMAIN rets :
        LET log == rets[k].log
        IN  EndsInRegain(log) =>
                /\ RegainedVar(log) \in Range(rets[k].cols)
                /\ RegainedVar(log) \notin Range(X)
                /\ Range(X) \subseteq Range(rets[k].cols)
                /\ Last(log) = Summary(rets[k].cols)
                /\ log[Len(log) - 2] = Summary(X)

\* C2 witness: a backward call that stopped in the regain branch has returned.
C2_RegainReturned ==
    /\ pc = "done"
    /\ IsBackward
    /\ EndsInRegain(rets[1].log)

\* C3: a call of forwardSelection or backwardSelection passes its
\* varchar_process on to the encoder without an error, whatever its value.
C3_PublicCallDoesNotRaise ==
    op \in {"forwardSelection", "backwardSelection"} => err = "" /\ pc # "raised"

\* C4: a variable is added to the selection only in a round in which it is a
\* candidate, its p-value in the fit of selection + candidate is at most sl,
\* and no other candidate has a lower p-value in its own fit.
C4_EnteredIsLowestSignificant ==
    [][ (pc = "fwd_loop" /\ selected_cols' # selected_cols) =>
            \E j \in Range(other_cols) :
                /\ j # "intercept"
                /\ selected_cols' = Append(selected_cols, j)
                /\ EntryPval(pvalues', selected_cols, j) <= sl
                /\ \A k \in Range(other_cols) :
                       EntryPval(pvalues', selected_cols, j)
                           <= EntryPval(pvalues', selected_cols, k)
      ]_vars

\* C4 witness: a forward call returned two variables besides intercept, the
\* second of which was entered ahead of a candidate that stands before it.
C4_TwoEntered ==
    /\ pc = "done"
    /\ IsForward
    /\ Len(rets[1].cols) = 3
    /\ rets[1].cols[2] # X[2]

\* there are candidates, and every one is insignificant in round 1
NoneSignificantInRound1 ==
    /\ Candidates(X) # {}
    /\ \A j \in Candidates(X) : EntryPval(pvalues, InitialSelection, j) > sl

\* C5 as claimed: if every candidate has a p-value above sl in round 1, the
\* forward selector returns ["intercept"] and a log that notes that no
\* variable was entered.
C5_NoEntryIsNotedInLog ==
    (pc = "done" /\ IsForward /\ NoneSignificantInRound1) =>
        \A k \in DOMAIN rets :
            /\ rets[k].cols = << "intercept" >>
            /\ rets[k].log # << >>

\* C5 as amended: if every candidate has a p-value above sl in round 1, the
\* forward selector returns ["intercept"] and an empty log: the log holds
\* neither an announcement nor a note of the stop.
C5_NoEntryReturnsEmptyLog ==
    (pc = "done" /\ IsForward /\ NoneSignificantInRound1) =>
        \A k \in DOMAIN rets :
            /\ rets[k].cols = << "intercept" >>
            /\ rets[k].log = << >>

\* C5 witness: a forward call on a matrix with two candidates, both
\* insignificant in round 1, has returned.
C5_NoEntryReturned ==
    /\ pc = "done"
    /\ IsForward
    /\ Cardinality(Candidates(X)) = 2
    /\ NoneSignificantInRound1

\* C6: a round of the backward selector removes at most one column from the
\* working matrix, and the selector never asks for a fit on a matrix without
\* columns.
C6_AtMostOneColumnPerRound ==
    [][ pc = "bwd_loop" =>
            /\ Len(X') >= Len(X) - 1
            /\ ~(i # 0 /\ X = << >>)
            /\ err' # "FitError"
      ]_vars

\* C7 as claimed: when the forward loop is over on a matrix with candidates,
\* it has performed at most as many rounds as the matrix has candidate
\* columns (the round that breaks is the round with index i).
C7_RoundsAtMostCandidates ==
    (IsForward /\ pc \in {"fwd_end", "done"} /\ Candidates(X) # {}) =>
        i + 1 <= Cardinality(Candidates(X))

\* C7 as amended: the forward loop performs at most one round more than the
\* matrix has candidates.  Every round either enters exactly one candidate
\* and moves to the next index, which is below the number of columns, or
\* enters nothing and leaves the loop; the index counts the entered
\* candidates, so the loop is over after at most (candidates + 1) rounds.
C7_ForwardLoopBounded ==
    [][ pc = "fwd_loop" =>
            /\ i = Len(selected_cols) - 1
            /\ Len(selected_cols) + Len(other_cols) = Len(X)
            /\ i + 1 <= Cardinality(Candidates(X)) + 1
            /\ \/ /\ pc' = "fwd_loop"
                  /\ i' = i + 1
                  /\ Len(selected_cols') = Len(selected_cols) + 1
                  /\ Len(other_cols') = Len(other_cols) - 1
               \/ /\ pc' = "fwd_end"
                  /\ i' = i
                  /\ selected_cols' = selected_cols
      ]_vars

\* C7 witness: the loop is over after one round more than there are
\* candidates: every candidate was entered, the last round entered nothing.
C7_AllEnteredThenBreak ==
    /\ pc = "fwd_end"
    /\ Cardinality(Candidates(X)) = 2
    /\ other_cols = << >>
    /\ i + 1 = 3

\* C8: with a criterion gate (aic, bic, or r2/adjr2 on a linear model) the
\* recorded criterion value starts at the value of the intercept-only fit and
\* never gets worse; a candidate is added only when its fit is strictly
\* better than the recorded value, which then becomes the new value; a
\* significant candidate whose fit is equal or worse is not added and ends
\* the loop.
C8_CriterionMonotone ==
    [][ (pc = "fwd_loop" /\ CriterionOf(elimination_criteria, model_type) # "none") =>
            LET lower == elimination_criteria \in {"aic", "bic"}
                Better(a, b) == IF lower THEN a < b ELSE a > b
                offered == iterations_log' # iterations_log
            IN  /\ i = 0 => criteria = fitcrit[<< "intercept" >>]
                /\ ~Better(criteria, criteria')
                /\ selected_cols' # selected_cols =>
                       /\ Better(criteria', criteria)
                       /\ criteria' = fitcrit'[selected_cols']
                /\ (offered /\ ~Better(fitcrit'[model'], criteria)) =>
                       /\ selected_cols' = selected_cols
                       /\ criteria' = criteria
                       /\ pc' = "fwd_end"
                /\ (offered /\ Better(fitcrit'[model'], criteria)) =>
                       selected_cols' = model'
      ]_vars

\* C8 witness: a gated forward call on a linear model with r2 entered one
\* candidate and then stopped on a second whose fit was not better.
C8_EnteredThenRejected ==
    /\ pc = "done"
    /\ IsForward
    /\ elimination_criteria = "r2"
    /\ model_type = "linear"
    /\ Len(rets[1].cols) = 2
    /\ Len(SelectSeq(rets[1].log, LAMBDA b : b.kind = "Entered")) = 2

\* in every fit made so far intercept, and only intercept, is significant
OnlyInterceptSignificant(pv) ==
    \A key \in DOMAIN pv : (pv[key] <= sl) <=> (key[2] = "intercept")

\* C9: without a criterion gate, on a matrix where in every fit only
\* intercept is significant, every round of the backward selector that
\* removes anything removes exactly one column, never intercept, and the
\* selector returns ["intercept"].
C9_OneByOneDownToIntercept ==
    [][ (pc = "bwd_loop" /\ elimination_criteria = "None"
            /\ "intercept" \in Range(X) /\ OnlyInterceptSignificant(pvalues')) =>
            /\ X' # X => (Len(X') = Len(X) - 1 /\ "intercept" \in Range(X'))
            /\ pc' = "bwd_end" => cols' = << "intercept" >>
      ]_vars

\* C10: a forward call repeated with the same arguments returns the same
\* columns and the same log as the first call.
C10_ForwardRepeatable ==
    \A k \in DOMAIN rets : IsForward => rets[k] = rets[1]

\* C10 witness: the second of two forward calls has returned, after the
\* first one entered a variable.
C10_SecondCallReturned ==
    /\ pc = "done"
    /\ IsForward
    /\ Len(rets) = 2
    /\ Len(rets[1].cols) >= 2

\* C11: whenever the backward selector returns without the regain branch,
\* every column of the returned list has a p-value of at most sl in the
\* last model that was fitted.
C11_ReturnedAreSignificant ==
    (pc = "done" /\ IsBackward) =>
        \A k \in DOMAIN rets :
            ~EndsInRegain(rets[k].log) =>
                \A j \in Range(rets[k].cols) : pvalues[<< model, j >>] <= sl

\* C12: with a model_type that is neither "linear" nor "logistic" (the fit
\* is then a linear one) and elimination_criteria r2 or adjr2, both selectors
\* gate as they do for "linear": the forward selector adds a candidate only
\* when the criterion value of its fit was read and is strictly higher than
\* the recorded one, and the backward selector after round 0 reads the values
\* of the previous fit and of the refit and regains when the refit is lower.
C12_UnrecognizedGatesAsLinear ==
    [][ (model_type \notin {"linear", "logistic"}
            /\ elimination_criteria \in {"r2", "adjr2"}) =>
            /\ (pc = "fwd_loop" /\ selected_cols' # selected_cols) =>
                   /\ criteria # Unbound
                   /\ selected_cols' \in DOMAIN fitcrit'
                   /\ fitcrit'[selected_cols'] > criteria
            /\ (pc = "bwd_loop" /\ i # 0 /\ X # << >>) =>
                   /\ {model, X} \subseteq DOMAIN fitcrit'
                   /\ fitcrit'[model] > fitcrit'[X] =>
                          (pc' = "bwd_end" /\ X' = X)
      ]_vars

\* C13: in a backward round after round 0 that refits the reduced matrix,
\* with a gate (aic, bic, or r2/adjr2 on a linear model) the value of the
\* refit is compared with the value of the model accepted before: the
\* selector takes the regain branch exactly when the refit is strictly
\* worse (greater for aic/bic, lower for r2/adjr2); on an equal or better
\* value the refit becomes the current model and the round goes on to the
\* p-value test.  Without a gate the refit always becomes the current model.
C13_RegainExactlyWhenWorse ==
    [][ (pc = "bwd_loop" /\ i # 0 /\ X # << >>) =>
            LET ec == elimination_criteria
                gate == \/ ec \in {"aic", "bic"}
                        \/ ec \in {"r2", "adjr2"} /\ model_type = "linear"
                worse == IF ec \in {"aic", "bic"}
                         THEN fitcrit'[X] > fitcrit'[model]
                         ELSE fitcrit'[X] < fitcrit'[model]
                regained ==
                    /\ pc' = "bwd_end"
                    /\ iterations_log' = iterations_log
                           \o << Summary(X), Regained(last_eleminated) >>
                    /\ model' = model
                    /\ X' = X
                accepted ==
                    /\ model' = X
                    /\ Len(iterations_log') > Len(iterations_log)
                    /\ iterations_log'[Len(iterations_log) + 1] = Summary(X)
                    /\ \A k \in DOMAIN iterations_log' :
                           iterations_log'[k].kind # "Regained"
                    /\ \/ X' # X /\ pc' \in {"bwd_loop", "bwd_end"} /\ i' = i + 1
                       \/ X' = X /\ pc' = "bwd_end"
            IN  IF gate
                THEN /\ {model, X} \subseteq DOMAIN fitcrit'
                     /\ criteria' = fitcrit'[model]
                     /\ worse <=> regained
                     /\ ~worse => accepted
                ELSE accepted
      ]_vars

\* C13 witness: a gated backward call on a linear model has returned after a
\* round 1 that accepted its refit and eliminated again and a round 2 that
\* took the regain branch.
C13_AcceptedThenRegained ==
    /\ pc = "done"
    /\ IsBackward
    /\ elimination_criteria = "adjr2"
    /\ model_type = "linear"
    /\ i = 2
    /\ EndsInRegain(rets[1].log)

\* the columns of the encoder's result that line 115 fills with 1
SetToOne(names) == { k \in DOMAIN names : names[k] = "intercept" }
\* the numeric columns of a table other than "intercept", in table order
OtherNumeric(t) ==
    LET keep == SelectSeq(t, LAMBDA c : c.dtype = "num" /\ c.name # "intercept")
    IN  [k \in 1 .. Len(keep) |-> keep[k].name]

\* C14: whatever columns the table has, a column named "intercept" among
\* them included, the encoder's result has exactly one column named
\* "intercept", that column is the first one and holds the constant 1, and
\* the other columns keep their relative order.
C14_InterceptFirstOthersInOrder ==
    (op = "varcharProcessing" /\ pc = "done") =>
        /\ Cardinality({ k \in DOMAIN X : X[k] = "intercept" }) = 1
        /\ X[1] = "intercept"
        /\ 1 \in SetToOne(X)
        /\ SelectSeq(X, LAMBDA j : j \in Range(OtherNumeric(raw)))
               = OtherNumeric(raw)

\* a sequence without a repeated element
NoDuplicates(s) == \A p, q \in DOMAIN s : p # q => s[p] # s[q]

\* C15: a forward round adds at most one variable to the selection; during
\* a forward run selected_cols and other_cols are disjoint, have no
\* duplicates and together hold exactly the columns of the design matrix,
\* which the forward selector never modifies; a backward step only ever
\* takes columns out of the working matrix, so a column that was removed
\* is never in it again.
C15_ListsPartitionAndMatrixKept ==
    [][ /\ (IsForward' /\ pc' \in {"fwd_loop", "fwd_end", "done"}) =>
               /\ NoDuplicates(selected_cols' \o other_cols')
               /\ Range(selected_cols') \cap Range(other_cols') = {}
               /\ Range(selected_cols') \cup Range(other_cols') = Range(X')
               /\ Len(selected_cols') + Len(other_cols') = Len(X')
        /\ (IsForward /\ pc \in {"fwd_loop", "fwd_end", "done"}) => X' = X
        /\ pc = "fwd_loop" =>
               \/ selected_cols' = selected_cols
               \/ \E j \in Range(other_cols) :
                      /\ selected_cols' = Append(selected_cols, j)
                      /\ other_cols' = Remove(other_cols, j)
        /\ (IsBackward /\ pc \in {"bwd_loop", "bwd_end"}) =>
               /\ Range(X') \subseteq Range(X)
               /\ \A k \in DOMAIN iterations_log' :
                      iterations_log'[k].kind = "Eliminated" =>
                          iterations_log'[k].var \notin Range(X')
      ]_vars

\* C15 witness: a forward call on a matrix with two candidates has entered
\* one of them and keeps the other as a candidate.
C15_OneEnteredOneLeft ==
    /\ pc = "done"
    /\ IsForward
    /\ Len(selected_cols) = 2
    /\ Len(other_cols) = 1

\* the variables a log announces with blocks of one kind, in log order
Announced(log, kind) ==
    LET blocks == SelectSeq(log, LAMBDA b : b.kind = kind)
    IN  [k \in 1 .. Len(blocks) |-> blocks[k].var]

\* C16: the variables the log of a forward call announces as "Entered" are,
\* in log order, exactly the members of the returned list after "intercept";
\* a candidate the criterion gate rejects is not announced.
C16_EnteredAreTheSelected ==
    IsForward =>
        \A k \in DOMAIN rets :
            Announced(rets[k].log, "Entered") = Tail(rets[k].cols)

\* the log announces j as eliminated and does not announce it as regained
\* afterwards
EliminatedForGood(log, j) ==
    \E p \in DOMAIN log :
        /\ log[p] = Eliminated(j)
        /\ \A q \in p + 1 .. Len(log) : log[q] # Regained(j)

\* C17: whenever the backward selector returns, a column of the matrix it
\* was given (the columns of the first summary in its log) is absent from
\* the returned list exactly if the log announces it as "Eliminated" and not
\* afterwards as "Regained"; outside the regain branch the returned list is
\* the list of the columns the working matrix has at the return.
C17_LogAgreesWithReturned ==
    IsBackward =>
        \A k \in DOMAIN rets :
            LET log == rets[k].log
            IN  /\ \A j \in Range(log[1].fit) :
                       j \notin Range(rets[k].cols) <=> EliminatedForGood(log, j)
                /\ ~EndsInRegain(log) => rets[k].cols = X

====
